---- MODULE Spec2Model ----
(***************************************************************************)
(* Model of the Ptalk test servers' device protocol layer:                 *)
(*   - src/server_test/dummy_server_cmd.py (impl = "cmd"): ADPCM codec,    *)
(*     the per-connection audio session of websocket_endpoint and the      *)
(*     cancellable send_wav playback task;                                 *)
(*   - src/server_test/serverOLD.py (impl = "old"): the same protocol with *)
(*     the response streamed inline in the receive loop.                   *)
(* src/server_test/dummy_server.py has the session code of                 *)
(* dummy_server_cmd.py without the JSON/console parts.                     *)
(***************************************************************************)
EXTENDS Integers, Sequences, FiniteSets, TLC

VARIABLES
    impl,               \* which server is running: "cmd" or "old"
    hpc,                \* position of the connection handler (websocket_endpoint)
    ACTIVE_WS,          \* dummy_server_cmd.py global: "ws" or "None"
    recording,          \* cmd: local flag of websocket_endpoint
    pcm_buf,            \* cmd: list of decoded frames (each a byte sequence)
    rx_state,           \* cmd: receive-side codec state <<predictor, index>>
    current_tts_task,   \* cmd: 0 (None) or the id of the last created task
    tasks,              \* cmd: the send_wav tasks created so far
    ntasks,             \* number of turns started (tasks created / old turns)
    is_button_active,   \* old: local flag
    is_processing,      \* old: local flag
    speech_buffer,      \* old: list of 512-sample frames (bytes)
    pcm_acc,            \* old: decoded samples not yet framed
    adpcm_dec_state,    \* old: <<predictor, index>>
    adpcm_enc_state,    \* old: <<predictor, index>>
    idx,                \* old: sample index of the inline stream
    pend,               \* old: the message of the send the handler awaits
    sentLog,            \* history: per turn, the messages sent to the device
    turnFailed,         \* history: per turn, what raised in it
    barged,             \* history: the turns whose stream was active at a START
    last,               \* history: the last message the handler handled, and
                        \* (fresh) what was decoded since the last START
    opc,                \* position of console_loop / handle_ota_command
    size,               \* handle_ota_command: os.path.getsize(bin_path)
    total_chunks,       \* handle_ota_command local
    seq,                \* handle_ota_command local
    sent,               \* handle_ota_command local
    failed_chunks,      \* handle_ota_command local
    retry,              \* handle_ota_command: the loop variable of the retry loop
    ota_ack_event,      \* global asyncio.Event: TRUE when set
    ota_last_ack_seq,   \* global
    ota_last_nack_seq,  \* global
    otaLog,             \* history: the messages the transfer has sent
    otaHeard,           \* history: what the device sent during the transfer
    codec               \* the codec functions applied to chosen inputs

vars == <<impl, hpc, ACTIVE_WS, recording, pcm_buf, rx_state, current_tts_task,
          tasks, ntasks, is_button_active, is_processing, speech_buffer,
          pcm_acc, adpcm_dec_state, adpcm_enc_state, idx, pend, sentLog,
          turnFailed, barged, last, opc, size, total_chunks, seq, sent,
          failed_chunks, retry, ota_ack_event, ota_last_ack_seq,
          ota_last_nack_seq, otaLog, otaHeard, codec>>

cmdVars == <<recording, pcm_buf, rx_state, current_tts_task, tasks, ACTIVE_WS>>
oldVars == <<is_button_active, is_processing, speech_buffer, pcm_acc,
             adpcm_dec_state, adpcm_enc_state, idx, pend>>
otaVars == <<opc, size, total_chunks, seq, sent, failed_chunks, retry,
             ota_ack_event, ota_last_ack_seq, ota_last_nack_seq, otaLog,
             otaHeard>>
codecVars == <<codec>>

-----------------------------------------------------------------------------
(* Bounds of the model *)

\* turns (create_task calls, old: processed End messages) per connection
MaxTasks == 2
\* binary messages buffered in one listening period
MaxBuf == 1
\* samples per response block: readframes(1024) / chunk_samples, scaled down
BlockSamples == 2
\* samples per utterance frame of serverOLD (frame_size = 512), scaled down
FrameSize == 3
\* chunks of the largest firmware image of the model
MaxChunks == 3
\* longest sample sequence handed to the encoder
MaxSamples == 4
\* longest byte sequence handed to the decoder as it is
MaxBytes == 2

\* the binary audio messages a device may send (ADPCM bytes)
AudioMsgs == { <<119>>, <<143>> }
\* the response audio (REPLY_WAV / the pipeline's output_audio), 16-bit samples
ReplyPcm == <<1000, -2000, 3000>>
\* JSON objects a device may send
JsonMsgs == { "device_handshake", "status" }

TaskIds == 1..MaxTasks

-----------------------------------------------------------------------------
(* IMA ADPCM tables *)

STEP_TABLE ==
  << 7, 8, 9, 10, 11, 12, 13, 14, 16, 17,
     19, 21, 23, 25, 28, 31, 34, 37, 41, 45,
     50, 55, 60, 66, 73, 80, 88, 97, 107, 118,
     130, 143, 157, 173, 190, 209, 230, 253, 279, 307,
     337, 371, 408, 449, 494, 544, 598, 658, 724, 796,
     876, 963, 1060, 1166, 1282, 1411, 1552, 1707, 1878, 2066,
     2272, 2499, 2749, 3024, 3327, 3660, 4026, 4428, 4871, 5358,
     5894, 6484, 7132, 7845, 8630, 9493, 10442, 11487, 12635, 13899,
     15289, 16818, 18500, 20350, 22385, 24623, 27086, 29794, 32767 >>

INDEX_TABLE == << -1, -1, -1, -1, 2, 4, 6, 8, -1, -1, -1, -1, 2, 4, 6, 8 >>

Max(a, b) == IF a >= b THEN a ELSE b
Min(a, b) == IF a <= b THEN a ELSE b

\* bit k (value 1, 2, 4, 8) of a nibble
Bit(n, k) == (n \div k) % 2 = 1

\* int.to_bytes(2, "little", signed=True)
ToBytesLE(s) == << (s % 65536) % 256, (s % 65536) \div 256 >>

\* int.from_bytes(b, "little", signed=True) of a one- or two-byte slice
FromBytesLE(b) ==
    IF Len(b) = 2
    THEN LET u == b[1] + 256 * b[2] IN IF u >= 32768 THEN u - 65536 ELSE u
    ELSE IF b[1] >= 128 THEN b[1] - 256 ELSE b[1]

\* mutant of DecodeNibble: the predictor is not clamped
DecodeNibbleUnclamped(state, nibble) ==
    LET step == STEP_TABLE[state[2] + 1]
        d0 == step \div 8
        d1 == IF Bit(nibble, 1) THEN d0 + (step \div 4) ELSE d0
        d2 == IF Bit(nibble, 2) THEN d1 + (step \div 2) ELSE d1
        d3 == IF Bit(nibble, 4) THEN d2 + step ELSE d2
        diff == IF Bit(nibble, 8) THEN -d3 ELSE d3
    IN << state[1] + diff,
          Max(0, Min(88, state[2] + INDEX_TABLE[nibble + 1])) >>

\* one nibble through the decoder of dummy_server_cmd.py
DecodeNibble(state, nibble) ==
    LET step == STEP_TABLE[state[2] + 1]
        d0 == step \div 8
        d1 == IF Bit(nibble, 1) THEN d0 + (step \div 4) ELSE d0
        d2 == IF Bit(nibble, 2) THEN d1 + (step \div 2) ELSE d1
        d3 == IF Bit(nibble, 4) THEN d2 + step ELSE d2
        diff == IF Bit(nibble, 8) THEN -d3 ELSE d3
    IN << Max(-32768, Min(32767, state[1] + diff)),
          Max(0, Min(88, state[2] + INDEX_TABLE[nibble + 1])) >>

\* adpcm_decode(adpcm, state) -> [pcm, state]; high nibble first
RECURSIVE adpcm_decode(_, _)
adpcm_decode(adpcm, state) ==
    IF adpcm = << >> THEN [pcm |-> << >>, state |-> state]
    ELSE LET b == Head(adpcm)
             s1 == DecodeNibble(state, (b \div 16) % 16)
             s2 == DecodeNibble(s1, b % 16)
             rest == adpcm_decode(Tail(adpcm), s2)
         IN [pcm |-> ToBytesLE(s1[1]) \o ToBytesLE(s2[1]) \o rest.pcm,
             state |-> rest.state]

\* the 4-bit code the encoder's ladder gives sample s in `state`
EncodeCode(state, s) ==
    LET step == STEP_TABLE[state[2] + 1]
        d0 == s - state[1]
        sign == IF d0 < 0 THEN 8 ELSE 0
        a0 == IF d0 < 0 THEN -d0 ELSE d0
        c4 == IF a0 >= step THEN 4 ELSE 0
        a1 == IF a0 >= step THEN a0 - step ELSE a0
        st1 == step \div 2
        c2 == IF a1 >= st1 THEN 2 ELSE 0
        a2 == IF a1 >= st1 THEN a1 - st1 ELSE a1
        st2 == st1 \div 2
        c1 == IF a2 >= st2 THEN 1 ELSE 0
    IN sign + c4 + c2 + c1

\* mutant of EncodeUpdate: the quantized delta weighs bits 1 and 2 the other
\* way round than the decoder does
EncodeUpdateSwappedBits(state, code) ==
    LET step == STEP_TABLE[state[2] + 1]
        q0 == step \div 8
        q1 == IF Bit(code, 4) THEN q0 + step ELSE q0
        q2 == IF Bit(code, 2) THEN q1 + (step \div 4) ELSE q1
        q3 == IF Bit(code, 1) THEN q2 + (step \div 2) ELSE q2
        p == state[1] + (IF Bit(code, 8) THEN -q3 ELSE q3)
    IN << Max(-32768, Min(32767, p)),
          Max(0, Min(88, state[2] + INDEX_TABLE[code + 1])) >>

\* the encoder's predictor/index update for `code` (lines 80-91)
EncodeUpdate(state, code) ==
    LET step == STEP_TABLE[state[2] + 1]
        q0 == step \div 8
        q1 == IF Bit(code, 4) THEN q0 + step ELSE q0
        q2 == IF Bit(code, 2) THEN q1 + (step \div 2) ELSE q1
        q3 == IF Bit(code, 1) THEN q2 + (step \div 4) ELSE q2
        p == state[1] + (IF Bit(code, 8) THEN -q3 ELSE q3)
    IN << Max(-32768, Min(32767, p)),
          Max(0, Min(88, state[2] + INDEX_TABLE[code + 1])) >>

\* samples = [int.from_bytes(pcm[i:i+2]) for i in range(0, len(pcm), 2)]
SamplesOf(pcm) ==
    [i \in 1..((Len(pcm) + 1) \div 2) |->
        FromBytesLE(SubSeq(pcm, 2 * i - 1, Min(2 * i, Len(pcm))))]

\* one sample through the encoder: its code and the state after it
EncodeSample(state, s) ==
    LET code == EncodeCode(state, s)
    IN [code |-> code, state |-> EncodeUpdate(state, code)]

\* the loop of adpcm_encode over the samples: [out, state]; a byte is appended
\* only when its low nibble arrives.  Each iteration's values are bound by a
\* singleton quantifier, so an iteration is computed once
RECURSIVE EncodeLoop(_, _, _, _)
EncodeLoop(samples, state, high, byte) ==
    IF samples = << >> THEN [out |-> << >>, state |-> state]
    ELSE CHOOSE r \in UNION {
           { IF high THEN rest
             ELSE [out |-> << byte + (e.code % 16) >> \o rest.out,
                   state |-> rest.state]
             : rest \in { IF high
                          THEN EncodeLoop(Tail(samples), e.state, FALSE,
                                          (e.code % 16) * 16)
                          ELSE EncodeLoop(Tail(samples), e.state, TRUE, byte) } }
           : e \in { EncodeSample(state, Head(samples)) } } : TRUE

\* adpcm_encode(pcm, state) -> [out, state]
adpcm_encode(pcm, state) ==
    CHOOSE r \in { EncodeLoop(samples, state, TRUE, 0)
                   : samples \in { SamplesOf(pcm) } } : TRUE

-----------------------------------------------------------------------------
(* Messages on the connection *)

Text(s) == [type |-> "text", text |-> s, bytes |-> << >>]
Bin(b) == [type |-> "bytes", text |-> "", bytes |-> b]

\* a local that has not been assigned yet
NoState == << 0, -1 >>

NoTask == [pc |-> "none", pos |-> 0, tx_state |-> NoState, cancel |-> FALSE,
           cancelBy |-> "none", result |-> "none", pend |-> Text("")]

\* nothing heard from the device in a transfer: the first status report after
\* the request, what the current wait has heard (the ack of the awaited seq
\* if one came, else the nack of the awaited seq if one came, else the first
\* ack/nack of another seq), the attempts of the
\* current chunk that ended in a timeout or in a nack of that chunk, the
\* chunks all of whose attempts ended so, how the transfer ended, and whether
\* the ack of the awaited seq was handled while the attempt's send was pending
NoHeard == [status |-> "none", waker |-> << "none", -1 >>, badEnds |-> 0,
            exhausted |-> 0, result |-> "none", early |-> FALSE]

\* no codec call made yet
NoCodec == [phase |-> "none", start |-> << 0, 0 >>, samples |-> << >>,
            out |-> << >>, enc_state |-> << 0, 0 >>, gain |-> "1.0",
            decoded |-> << >>, dec_state |-> << 0, 0 >>]

NoLast == [msg |-> "none", pre |-> "Idle", empty |-> TRUE, acks |-> 0,
           fresh |-> << >>]

\* the await points of send_wav that are sends
SendPcs == {"send_ps", "send_emo", "send_ss", "send_blk", "send_end"}
\* the await points of send_wav that are sleeps
SleepPcs == {"sleep_ps", "sleep_blk"}

\* the await points of the inline turn of serverOLD
OldProcessingPcs == {"send_ps", "infer", "send_emo"}
OldSpeakingPcs == {"send_blk", "sleep_blk", "sleep_fin", "send_end"}

\* task.done()
Done(t) == tasks[t].pc = "done"

\* a created task that is neither finished nor cancelled
Active(t) == tasks[t].pc \notin {"none", "done"} /\ ~tasks[t].cancel

HasSent(t, s) == \E i \in 1..Len(sentLog[t]) : sentLog[t][i] = Text(s)

\* the session state of the connection, read off the handler's variables
SessionState ==
    IF impl = "cmd"
    THEN IF recording THEN "Listening"
         ELSE IF current_tts_task # 0 /\ Active(current_tts_task)
              THEN IF HasSent(current_tts_task, "SPEAK_START")
                   THEN "Speaking" ELSE "Processing"
              ELSE "Idle"
    ELSE IF hpc \in OldProcessingPcs THEN "Processing"
         ELSE IF hpc \in OldSpeakingPcs THEN "Speaking"
         ELSE IF is_button_active THEN "Listening"
         ELSE "Idle"

\* the turns whose response stream is pending or in progress
StreamsActive ==
    IF impl = "cmd" THEN {t \in TaskIds : Active(t)}
    ELSE IF hpc \in OldProcessingPcs \cup OldSpeakingPcs THEN {ntasks} ELSE {}

\* the utterance the session has buffered
Utterance == IF impl = "cmd" THEN pcm_buf ELSE speech_buffer

-----------------------------------------------------------------------------
(* Initial state: the connection has been accepted *)

Init ==
    /\ impl \in {"cmd", "old"}
    /\ hpc = IF impl = "cmd" THEN "recv" ELSE "hello"
    /\ ACTIVE_WS = IF impl = "cmd" THEN "ws" ELSE "None"
    /\ recording = FALSE
    /\ pcm_buf = << >>
    /\ rx_state = << 0, 0 >>
    /\ current_tts_task = 0
    /\ tasks = [t \in TaskIds |-> NoTask]
    /\ ntasks = 0
    /\ is_button_active = FALSE
    /\ is_processing = FALSE
    /\ speech_buffer = << >>
    /\ pcm_acc = << >>
    /\ adpcm_dec_state = << 0, 0 >>
    /\ adpcm_enc_state = << 0, 0 >>
    /\ idx = 0
    /\ pend = Text("")
    /\ sentLog = [t \in TaskIds |-> << >>]
    /\ turnFailed = [t \in TaskIds |-> {}]
    /\ barged = {}
    /\ last = NoLast
    /\ opc = "idle"
    /\ size = 0
    /\ total_chunks = 0
    /\ seq = 0
    /\ sent = 0
    /\ failed_chunks = 0
    /\ retry = 0
    /\ ota_ack_event = FALSE
    /\ ota_last_ack_seq = -1
    /\ ota_last_nack_seq = -1
    /\ otaLog = << >>
    /\ otaHeard = NoHeard
    /\ codec = NoCodec

-----------------------------------------------------------------------------
(* dummy_server_cmd.py: send_wav, one action per await *)

\* wf.readframes(1024) at sample position pos: the bytes of the next block
BytesOf(samples) ==
    [i \in 1..(2 * Len(samples)) |->
        ToBytesLE(samples[(i + 1) \div 2])[IF i % 2 = 1 THEN 1 ELSE 2]]

ReadFrames(pos) ==
    BytesOf(SubSeq(ReplyPcm, pos + 1, Min(pos + BlockSamples, Len(ReplyPcm))))

\* mutant of LoopHead: the loop's exit returns without the TTS_END send
LoopHeadNoSentinel(r) ==
    LET pcm == ReadFrames(r.pos) IN
    IF pcm = << >>
    THEN [r EXCEPT !.pc = "done", !.result = "ended", !.pend = Text("")]
    ELSE CHOOSE n \in { [r EXCEPT !.pc = "send_blk", !.pend = Bin(e.out),
                                  !.tx_state = e.state,
                                  !.pos = r.pos + (Len(pcm) \div 2)]
                        : e \in { adpcm_encode(pcm, r.tx_state) } } : TRUE

\* the head of the streaming loop: read, then encode and send or leave the loop
LoopHead(r) ==
    LET pcm == ReadFrames(r.pos) IN
    IF pcm = << >>
    THEN [r EXCEPT !.pc = "send_end", !.pend = Text("TTS_END")]
    ELSE CHOOSE n \in { [r EXCEPT !.pc = "send_blk", !.pend = Bin(e.out),
                                  !.tx_state = e.state,
                                  !.pos = r.pos + (Len(pcm) \div 2)]
                        : e \in { adpcm_encode(pcm, r.tx_state) } } : TRUE

\* mutant of AfterSend: the block loop starts right after the emotion code,
\* SPEAK_START is not sent
AfterSendNoSpeakStart(r) ==
    CASE r.pc = "send_ps" -> [r EXCEPT !.pc = "sleep_ps", !.pend = Text("")]
      [] r.pc = "send_emo" -> LoopHead([r EXCEPT !.tx_state = << 0, 0 >>])
      [] r.pc = "send_ss" -> LoopHead([r EXCEPT !.tx_state = << 0, 0 >>])
      [] r.pc = "send_blk" -> [r EXCEPT !.pc = "sleep_blk", !.pend = Text("")]
      [] r.pc = "send_end" -> [r EXCEPT !.pc = "done", !.result = "ended",
                                        !.pend = Text("")]

\* the task after the send it awaits has returned
AfterSend(r) ==
    CASE r.pc = "send_ps" -> [r EXCEPT !.pc = "sleep_ps", !.pend = Text("")]
      [] r.pc = "send_emo" -> [r EXCEPT !.pc = "send_ss", !.pend = Text("SPEAK_START")]
      [] r.pc = "send_ss" -> LoopHead([r EXCEPT !.tx_state = << 0, 0 >>])
      [] r.pc = "send_blk" -> [r EXCEPT !.pc = "sleep_blk", !.pend = Text("")]
      [] r.pc = "send_end" -> [r EXCEPT !.pc = "done", !.result = "ended",
                                        !.pend = Text("")]

\* the task after the sleep it awaits has returned
AfterSleep(r) ==
    IF r.pc = "sleep_ps"
    THEN [r EXCEPT !.pc = "send_emo", !.pend = Text("01")]
    ELSE LoopHead(r)

\* first step of a task: os.path.exists, then the first send
TaskRun(t) ==
    /\ impl = "cmd"
    /\ tasks[t].pc = "created" /\ ~tasks[t].cancel
    /\ \/ tasks' = [tasks EXCEPT ![t].pc = "done", ![t].result = "nofile"]
       \/ tasks' = [tasks EXCEPT ![t].pc = "send_ps",
                                 ![t].pend = Text("PROCESSING_START")]
    /\ UNCHANGED <<impl, hpc, ACTIVE_WS, recording, pcm_buf, rx_state,
                   current_tts_task, ntasks, sentLog, turnFailed, last>>
    /\ UNCHANGED oldVars
    /\ UNCHANGED barged
    /\ UNCHANGED otaVars
    /\ UNCHANGED codecVars

\* a send of the task returns: the message is out, the task runs to its next await
TaskSendDone(t) ==
    /\ impl = "cmd"
    /\ tasks[t].pc \in SendPcs /\ ~tasks[t].cancel
    /\ sentLog' = [sentLog EXCEPT ![t] = Append(@, tasks[t].pend)]
    /\ tasks' = [tasks EXCEPT ![t] = AfterSend(@)]
    /\ UNCHANGED <<impl, hpc, ACTIVE_WS, recording, pcm_buf, rx_state,
                   current_tts_task, ntasks, turnFailed, last>>
    /\ UNCHANGED oldVars
    /\ UNCHANGED barged
    /\ UNCHANGED otaVars
    /\ UNCHANGED codecVars

\* mutant of OnSendError: the sentinel is sent from a finally-style exit
OnSendErrorSendsEnd(r) ==
    IF r.pc = "send_end"
    THEN [r EXCEPT !.pc = "done", !.result = "error", !.pend = Text("")]
    ELSE [r EXCEPT !.pc = "send_end", !.pend = Text("TTS_END")]

\* except Exception of send_wav: the error is logged and the task returns
OnSendError(r) ==
    [r EXCEPT !.pc = "done", !.result = "error", !.pend = Text("")]

\* a send of the task raises (broken connection): except Exception, logged
TaskSendFail(t) ==
    /\ impl = "cmd"
    /\ tasks[t].pc \in SendPcs /\ ~tasks[t].cancel
    /\ tasks' = [tasks EXCEPT ![t] = OnSendError(@)]
    /\ turnFailed' = [turnFailed EXCEPT ![t] = @ \cup {"transport"}]
    /\ UNCHANGED <<impl, hpc, ACTIVE_WS, recording, pcm_buf, rx_state,
                   current_tts_task, ntasks, sentLog, last>>
    /\ UNCHANGED oldVars
    /\ UNCHANGED barged
    /\ UNCHANGED otaVars
    /\ UNCHANGED codecVars

\* a sleep of the task returns
TaskSleepDone(t) ==
    /\ impl = "cmd"
    /\ tasks[t].pc \in SleepPcs /\ ~tasks[t].cancel
    /\ tasks' = [tasks EXCEPT ![t] = AfterSleep(@)]
    /\ UNCHANGED <<impl, hpc, ACTIVE_WS, recording, pcm_buf, rx_state,
                   current_tts_task, ntasks, sentLog, turnFailed, last>>
    /\ UNCHANGED oldVars
    /\ UNCHANGED barged
    /\ UNCHANGED otaVars
    /\ UNCHANGED codecVars

\* the task is resumed with CancelledError at its await: logged and re-raised
TaskCancelled(t) ==
    /\ impl = "cmd"
    /\ tasks[t].pc \notin {"none", "done"} /\ tasks[t].cancel
    /\ tasks' = [tasks EXCEPT ![t].pc = "done", ![t].result = "cancelled",
                              ![t].pend = Text("")]
    /\ turnFailed' = [turnFailed EXCEPT ![t] = @ \cup {"cancelled"}]
    /\ UNCHANGED <<impl, hpc, ACTIVE_WS, recording, pcm_buf, rx_state,
                   current_tts_task, ntasks, sentLog, last>>
    /\ UNCHANGED oldVars
    /\ UNCHANGED barged
    /\ UNCHANGED otaVars
    /\ UNCHANGED codecVars

\* task.cancel(): a request, delivered when the task is next resumed
CancelTask(ts, t, by) ==
    IF ts[t].pc \in {"none", "done"} \/ ts[t].cancel THEN ts
    ELSE [ts EXCEPT ![t].cancel = TRUE, ![t].cancelBy = by]

-----------------------------------------------------------------------------
(* dummy_server_cmd.py: websocket_endpoint.  Between two receive() calls the *)
(* handler does not await, so each message is handled in one step.          *)

\* mutant of RxStateAtStart: START leaves the receive-side state as it is
RxStateAtStartKept(state) == state

\* the receive-side codec state START sets, whatever it was
RxStateAtStart(state) == << 0, 0 >>

Handled(m) == [msg |-> m, pre |-> SessionState, empty |-> Utterance = << >>,
               acks |-> 0, fresh |-> last.fresh]

\* mutant of Buffers: audio is buffered whatever the recording flag says
BuffersAlways(rec) == TRUE

\* `if recording:` -- whether a binary message is decoded and buffered
Buffers(rec) == rec

\* mutant of StartsTurn: END starts a turn even with nothing recorded
StartsTurnAlways(buf) == TRUE

\* `if pcm_buf:` -- whether END starts a response turn
StartsTurn(buf) == buf # << >>

\* "bytes" in data: decoded and appended while recording, else ignored
RecvBytes(b) ==
    /\ impl = "cmd" /\ hpc = "recv"
    /\ Buffers(recording) => Len(pcm_buf) < MaxBuf
    /\ IF Buffers(recording)
       THEN LET d == adpcm_decode(b, rx_state)
            IN /\ rx_state' = d.state
               /\ pcm_buf' = Append(pcm_buf, d.pcm)
               /\ last' = [Handled("bytes") EXCEPT !.fresh = @ \o d.pcm]
       ELSE /\ UNCHANGED <<rx_state, pcm_buf>>
            /\ last' = Handled("bytes")
    /\ UNCHANGED <<impl, hpc, ACTIVE_WS, recording, current_tts_task, tasks,
                   ntasks, sentLog, turnFailed>>
    /\ UNCHANGED oldVars
    /\ UNCHANGED barged
    /\ UNCHANGED otaVars
    /\ UNCHANGED codecVars

\* mutant of RecvJson: the JSON text also falls through to the START branch
RecvJsonFallsThrough(cmd) ==
    /\ impl = "cmd" /\ hpc = "recv"
    /\ ACTIVE_WS' = IF cmd = "device_handshake" THEN "ws" ELSE ACTIVE_WS
    /\ pcm_buf' = << >>
    /\ rx_state' = << 0, 0 >>
    /\ recording' = TRUE
    /\ last' = Handled("json")
    /\ UNCHANGED <<impl, hpc, current_tts_task, tasks, ntasks, sentLog,
                   turnFailed>>
    /\ UNCHANGED oldVars
    /\ UNCHANGED barged
    /\ UNCHANGED otaVars
    /\ UNCHANGED codecVars

\* a text that parses as a JSON object: handshake / status, then continue
RecvJson(cmd) ==
    /\ impl = "cmd" /\ hpc = "recv"
    /\ ACTIVE_WS' = IF cmd = "device_handshake" THEN "ws" ELSE ACTIVE_WS
    /\ last' = Handled("json")
    /\ UNCHANGED <<impl, hpc, recording, pcm_buf, rx_state, current_tts_task,
                   tasks, ntasks, sentLog, turnFailed>>
    /\ UNCHANGED oldVars
    /\ UNCHANGED barged
    /\ UNCHANGED otaVars
    /\ UNCHANGED codecVars

\* msg == "START"
RecvStart ==
    /\ impl = "cmd" /\ hpc = "recv"
    /\ tasks' = IF current_tts_task # 0 /\ ~Done(current_tts_task)
                THEN CancelTask(tasks, current_tts_task, "START")
                ELSE tasks
    /\ pcm_buf' = << >>
    /\ rx_state' = RxStateAtStart(rx_state)
    /\ recording' = TRUE
    /\ barged' = barged \cup StreamsActive
    /\ last' = [Handled("START") EXCEPT !.fresh = << >>]
    /\ UNCHANGED <<impl, hpc, ACTIVE_WS, current_tts_task, ntasks, sentLog,
                   turnFailed>>
    /\ UNCHANGED oldVars
    /\ UNCHANGED otaVars
    /\ UNCHANGED codecVars

\* msg == "END": the recording is saved and a send_wav task is created
RecvEnd ==
    /\ impl = "cmd" /\ hpc = "recv"
    /\ StartsTurn(pcm_buf) => ntasks < MaxTasks
    /\ recording' = FALSE
    /\ IF StartsTurn(pcm_buf)
       THEN /\ ntasks' = ntasks + 1
            /\ current_tts_task' = ntasks + 1
            /\ tasks' = [tasks EXCEPT ![ntasks + 1] = [NoTask EXCEPT !.pc = "created"]]
       ELSE UNCHANGED <<ntasks, current_tts_task, tasks>>
    /\ last' = Handled("END")
    /\ UNCHANGED <<impl, hpc, ACTIVE_WS, pcm_buf, rx_state, sentLog, turnFailed>>
    /\ UNCHANGED oldVars
    /\ UNCHANGED barged
    /\ UNCHANGED otaVars
    /\ UNCHANGED codecVars

\* msg == "END" and writing the recording raises: except Exception, handler ends
RecvEndSaveFails ==
    /\ impl = "cmd" /\ hpc = "recv"
    /\ pcm_buf # << >>
    /\ recording' = FALSE
    /\ hpc' = "closed"
    /\ pcm_buf' = << >>
    /\ last' = Handled("save_error")
    /\ UNCHANGED <<impl, ACTIVE_WS, rx_state, current_tts_task, tasks, ntasks,
                   sentLog, turnFailed>>
    /\ UNCHANGED oldVars
    /\ UNCHANGED barged
    /\ UNCHANGED otaVars
    /\ UNCHANGED codecVars

\* any other text that is no JSON object: logged only
RecvOtherText ==
    /\ impl = "cmd" /\ hpc = "recv"
    /\ last' = Handled("text")
    /\ UNCHANGED <<impl, hpc, ACTIVE_WS, recording, pcm_buf, rx_state,
                   current_tts_task, tasks, ntasks, sentLog, turnFailed>>
    /\ UNCHANGED oldVars
    /\ UNCHANGED barged
    /\ UNCHANGED otaVars
    /\ UNCHANGED codecVars

\* receive() raises WebSocketDisconnect: the current task is cancelled
RecvDisconnect ==
    /\ impl = "cmd" /\ hpc = "recv"
    /\ hpc' = "closed"
    /\ ACTIVE_WS' = "None"
    /\ tasks' = IF current_tts_task # 0
                THEN CancelTask(tasks, current_tts_task, "disconnect")
                ELSE tasks
    /\ pcm_buf' = << >>
    /\ last' = Handled("disconnect")
    /\ UNCHANGED <<impl, recording, rx_state, current_tts_task, ntasks, sentLog,
                   turnFailed>>
    /\ UNCHANGED oldVars
    /\ UNCHANGED barged
    /\ UNCHANGED otaVars
    /\ UNCHANGED codecVars

\* receive() raises anything else: except Exception, logged, handler ends
RecvError ==
    /\ impl = "cmd" /\ hpc = "recv"
    /\ hpc' = "closed"
    /\ pcm_buf' = << >>
    /\ last' = Handled("error")
    /\ UNCHANGED <<impl, ACTIVE_WS, recording, rx_state, current_tts_task, tasks,
                   ntasks, sentLog, turnFailed>>
    /\ UNCHANGED oldVars
    /\ UNCHANGED barged
    /\ UNCHANGED otaVars
    /\ UNCHANGED codecVars

CmdNext ==
    \/ \E b \in AudioMsgs : RecvBytes(b)
    \/ \E c \in JsonMsgs : RecvJson(c)
    \/ RecvStart
    \/ RecvEnd
    \/ RecvEndSaveFails
    \/ RecvOtherText
    \/ RecvDisconnect
    \/ RecvError
    \/ \E t \in TaskIds : TaskRun(t)
    \/ \E t \in TaskIds : TaskSendDone(t)
    \/ \E t \in TaskIds : TaskSendFail(t)
    \/ \E t \in TaskIds : TaskSleepDone(t)
    \/ \E t \in TaskIds : TaskCancelled(t)

-----------------------------------------------------------------------------
(* serverOLD.py: codec (low nibble first) *)

\* int(x * 2.5): the product truncated towards zero
Gain25(x) == IF x >= 0 THEN (5 * x) \div 2 ELSE -((5 * (-x)) \div 2)

\* one nibble through adpcm_bytes_to_pcm_int16: the new <<predictor, index>>
OldDecodeNibble(state, nibble) ==
    LET step == STEP_TABLE[state[2] + 1]
        delta == nibble % 8
        q0 == step \div 8
        q1 == IF Bit(delta, 4) THEN q0 + step ELSE q0
        q2 == IF Bit(delta, 2) THEN q1 + (step \div 2) ELSE q1
        q3 == IF Bit(delta, 1) THEN q2 + (step \div 4) ELSE q2
        p == IF Bit(nibble, 8) THEN state[1] - q3 ELSE state[1] + q3
    IN << Max(-32768, Min(32767, p)),
          Max(0, Min(88, state[2] + INDEX_TABLE[nibble + 1])) >>

\* sample = int(predictor * gain), clamped; gain is "1.0" (the default) or "2.5"
OldSample(predictor, gain) ==
    Max(-32768, Min(32767, IF gain = "2.5" THEN Gain25(predictor) ELSE predictor))

\* adpcm_bytes_to_pcm_int16(adpcm_bytes, state, gain) -> [samples, state]
RECURSIVE adpcm_bytes_to_pcm_int16(_, _, _)
adpcm_bytes_to_pcm_int16(adpcm, state, gain) ==
    IF adpcm = << >> THEN [samples |-> << >>, state |-> state]
    ELSE LET b == Head(adpcm)
             s1 == OldDecodeNibble(state, b % 16)
             s2 == OldDecodeNibble(s1, (b \div 16) % 16)
             rest == adpcm_bytes_to_pcm_int16(Tail(adpcm), s2, gain)
         IN [samples |-> << OldSample(s1[1], gain), OldSample(s2[1], gain) >>
                         \o rest.samples,
             state |-> rest.state]

\* one sample through the encoder of serverOLD.py: its nibble and the state
\* after it
OldEncodeSample(state, s) ==
    LET nibble == EncodeCode(state, s)
    IN [nibble |-> nibble, state |-> OldDecodeNibble(state, nibble)]

\* the loop of adpcm_encode_pcm_int16_to_bytes: low nibble first, a trailing
\* odd nibble is flushed as a byte of its own
RECURSIVE OldEncodeLoop(_, _, _, _)
OldEncodeLoop(samples, state, high_nibble, out_byte) ==
    IF samples = << >>
    THEN [out |-> IF high_nibble THEN << out_byte >> ELSE << >>, state |-> state]
    ELSE CHOOSE r \in UNION {
           { IF ~high_nibble THEN rest
             ELSE [out |-> << out_byte + (e.nibble % 16) * 16 >> \o rest.out,
                   state |-> rest.state]
             : rest \in { IF ~high_nibble
                          THEN OldEncodeLoop(Tail(samples), e.state, TRUE,
                                             e.nibble % 16)
                          ELSE OldEncodeLoop(Tail(samples), e.state, FALSE, 0) } }
           : e \in { OldEncodeSample(state, Head(samples)) } } : TRUE

adpcm_encode_pcm_int16_to_bytes(samples, state) ==
    OldEncodeLoop(samples, state, FALSE, 0)

\* pcm_out[idx:end], zero-padded to chunk_samples
RECURSIVE Zeros(_)
Zeros(n) == IF n <= 0 THEN << >> ELSE << 0 >> \o Zeros(n - 1)

OldChunk(i) ==
    LET c == SubSeq(ReplyPcm, i + 1, Min(i + BlockSamples, Len(ReplyPcm)))
    IN c \o Zeros(BlockSamples - Len(c))

\* while pcm_acc.shape[0] >= frame_size: move one frame to speech_buffer
RECURSIVE FrameLoop(_, _)
FrameLoop(acc, buf) ==
    IF Len(acc) >= FrameSize
    THEN FrameLoop(SubSeq(acc, FrameSize + 1, Len(acc)),
                   Append(buf, BytesOf(SubSeq(acc, 1, FrameSize))))
    ELSE [acc |-> acc, buf |-> buf]

-----------------------------------------------------------------------------
(* serverOLD.py: websocket_endpoint.  The turn runs inline in the receive   *)
(* loop; hpc is the await the handler is suspended at.                      *)

\* the first message is taken as the device id
OldHello ==
    /\ impl = "old" /\ hpc = "hello"
    /\ hpc' = "recv"
    /\ UNCHANGED <<impl, ntasks, sentLog, turnFailed, last>>
    /\ UNCHANGED cmdVars
    /\ UNCHANGED oldVars
    /\ UNCHANGED barged
    /\ UNCHANGED otaVars
    /\ UNCHANGED codecVars

\* text "Start": reset, then await send_text("LISTENING")
OldRecvStart ==
    /\ impl = "old" /\ hpc = "recv"
    /\ is_button_active' = TRUE
    /\ adpcm_dec_state' = RxStateAtStart(adpcm_dec_state)
    /\ speech_buffer' = << >>
    /\ pend' = Text("LISTENING")
    /\ hpc' = "send_listening"
    /\ barged' = barged \cup StreamsActive
    /\ last' = [Handled("START") EXCEPT !.fresh = << >>]
    /\ UNCHANGED <<impl, ntasks, sentLog, turnFailed, is_processing, pcm_acc,
                   adpcm_enc_state, idx>>
    /\ UNCHANGED cmdVars
    /\ UNCHANGED otaVars
    /\ UNCHANGED codecVars

\* the LISTENING send returns; continue
OldListeningSent ==
    /\ impl = "old" /\ hpc = "send_listening"
    /\ hpc' = "recv"
    /\ last' = [last EXCEPT !.acks = @ + 1]
    /\ UNCHANGED <<impl, ntasks, sentLog, turnFailed>>
    /\ UNCHANGED cmdVars
    /\ UNCHANGED oldVars
    /\ UNCHANGED barged
    /\ UNCHANGED otaVars
    /\ UNCHANGED codecVars

\* text "End": with audio buffered, await send_text("PROCESSING_START")
OldRecvEnd ==
    /\ impl = "old" /\ hpc = "recv"
    /\ speech_buffer # << >> => ntasks < MaxTasks
    /\ is_button_active' = FALSE
    /\ IF speech_buffer # << >>
       THEN /\ is_processing' = TRUE
            /\ ntasks' = ntasks + 1
            /\ pend' = Text("PROCESSING_START")
            /\ hpc' = "send_ps"
       ELSE UNCHANGED <<is_processing, ntasks, pend, hpc>>
    /\ last' = Handled("END")
    /\ UNCHANGED <<impl, sentLog, turnFailed, speech_buffer, pcm_acc,
                   adpcm_dec_state, adpcm_enc_state, idx>>
    /\ UNCHANGED cmdVars
    /\ UNCHANGED barged
    /\ UNCHANGED otaVars
    /\ UNCHANGED codecVars

\* a send outside the turn's try block raises: the handler ends
OldSendRaises ==
    /\ impl = "old" /\ hpc \in {"send_listening", "send_ps"}
    /\ hpc' = "closed"
    /\ speech_buffer' = << >>
    /\ turnFailed' = IF hpc = "send_ps"
                     THEN [turnFailed EXCEPT ![ntasks] = @ \cup {"transport"}]
                     ELSE turnFailed
    /\ UNCHANGED <<impl, ntasks, sentLog, last, is_button_active, is_processing,
                   pcm_acc, adpcm_dec_state, adpcm_enc_state, idx, pend>>
    /\ UNCHANGED cmdVars
    /\ UNCHANGED barged
    /\ UNCHANGED otaVars
    /\ UNCHANGED codecVars

\* PROCESSING_START is out; the utterance is saved; await _pipeline.process
OldProcessingSent ==
    /\ impl = "old" /\ hpc = "send_ps"
    /\ sentLog' = [sentLog EXCEPT ![ntasks] = Append(@, pend)]
    /\ hpc' = "infer"
    /\ UNCHANGED <<impl, ntasks, turnFailed, last>>
    /\ UNCHANGED cmdVars
    /\ UNCHANGED oldVars
    /\ UNCHANGED barged
    /\ UNCHANGED otaVars
    /\ UNCHANGED codecVars

\* the pipeline returns: await send_text(output_emoji)
OldInferDone ==
    /\ impl = "old" /\ hpc = "infer"
    /\ pend' = Text("01")
    /\ hpc' = "send_emo"
    /\ UNCHANGED <<impl, ntasks, sentLog, turnFailed, last, is_button_active,
                   is_processing, speech_buffer, pcm_acc, adpcm_dec_state,
                   adpcm_enc_state, idx>>
    /\ UNCHANGED cmdVars
    /\ UNCHANGED barged
    /\ UNCHANGED otaVars
    /\ UNCHANGED codecVars

\* the pipeline or a send of the turn raises: except Exception, then finally
OldTurnRaises ==
    /\ impl = "old" /\ hpc \in {"infer", "send_emo", "send_blk"}
    /\ turnFailed' = [turnFailed EXCEPT ![ntasks] =
                        @ \cup {IF hpc = "infer" THEN "inference" ELSE "transport"}]
    /\ hpc' = "sleep_fin"
    /\ UNCHANGED <<impl, ntasks, sentLog, last>>
    /\ UNCHANGED cmdVars
    /\ UNCHANGED oldVars
    /\ UNCHANGED barged
    /\ UNCHANGED otaVars
    /\ UNCHANGED codecVars

\* the stream's next block: encode the padded chunk and await send_bytes
OldBlock(i) ==
    LET e == adpcm_encode_pcm_int16_to_bytes(OldChunk(i), adpcm_enc_state)
    IN /\ pend' = Bin(e.out)
       /\ adpcm_enc_state' = e.state
       /\ hpc' = "send_blk"

\* the emotion is out; with response audio the encoder is reset and the
\* stream starts, without it the turn goes to its finally block
OldEmotionSent ==
    /\ impl = "old" /\ hpc = "send_emo"
    /\ sentLog' = [sentLog EXCEPT ![ntasks] = Append(@, pend)]
    /\ \/ /\ hpc' = "sleep_fin"
          /\ UNCHANGED <<pend, adpcm_enc_state, idx>>
       \/ /\ idx' = 0
          /\ LET e == adpcm_encode_pcm_int16_to_bytes(OldChunk(0), << 0, 0 >>)
             IN /\ pend' = Bin(e.out)
                /\ adpcm_enc_state' = e.state
                /\ hpc' = "send_blk"
    /\ UNCHANGED <<impl, ntasks, turnFailed, last, is_button_active,
                   is_processing, speech_buffer, pcm_acc, adpcm_dec_state>>
    /\ UNCHANGED cmdVars
    /\ UNCHANGED barged
    /\ UNCHANGED otaVars
    /\ UNCHANGED codecVars

\* a block is out: idx += chunk_samples, await sleep(chunk_dt)
OldBlockSent ==
    /\ impl = "old" /\ hpc = "send_blk"
    /\ sentLog' = [sentLog EXCEPT ![ntasks] = Append(@, pend)]
    /\ idx' = idx + BlockSamples
    /\ hpc' = "sleep_blk"
    /\ UNCHANGED <<impl, ntasks, turnFailed, last, is_button_active,
                   is_processing, speech_buffer, pcm_acc, adpcm_dec_state,
                   adpcm_enc_state, pend>>
    /\ UNCHANGED cmdVars
    /\ UNCHANGED barged
    /\ UNCHANGED otaVars
    /\ UNCHANGED codecVars

\* the pacing sleep returns: next block, or the stream is complete
OldBlockSlept ==
    /\ impl = "old" /\ hpc = "sleep_blk"
    /\ IF idx < Len(ReplyPcm)
       THEN OldBlock(idx)
       ELSE /\ hpc' = "sleep_fin"
            /\ UNCHANGED <<pend, adpcm_enc_state>>
    /\ UNCHANGED <<impl, ntasks, sentLog, turnFailed, last, is_button_active,
                   is_processing, speech_buffer, pcm_acc, adpcm_dec_state, idx>>
    /\ UNCHANGED cmdVars
    /\ UNCHANGED barged
    /\ UNCHANGED otaVars
    /\ UNCHANGED codecVars

\* finally: after sleep(0.5) both codec states are reset, await send TTS_END
OldFinallySlept ==
    /\ impl = "old" /\ hpc = "sleep_fin"
    /\ adpcm_dec_state' = << 0, 0 >>
    /\ adpcm_enc_state' = << 0, 0 >>
    /\ pend' = Text("TTS_END")
    /\ hpc' = "send_end"
    /\ UNCHANGED <<impl, ntasks, sentLog, turnFailed, last, is_button_active,
                   is_processing, speech_buffer, pcm_acc, idx>>
    /\ UNCHANGED cmdVars
    /\ UNCHANGED barged
    /\ UNCHANGED otaVars
    /\ UNCHANGED codecVars

\* TTS_END is out (or its send raised and was swallowed): reset flags
OldTurnEnd(delivered) ==
    /\ impl = "old" /\ hpc = "send_end"
    /\ sentLog' = IF delivered THEN [sentLog EXCEPT ![ntasks] = Append(@, pend)]
                  ELSE sentLog
    /\ turnFailed' = IF delivered THEN turnFailed
                     ELSE [turnFailed EXCEPT ![ntasks] = @ \cup {"transport"}]
    /\ speech_buffer' = << >>
    /\ is_processing' = FALSE
    /\ hpc' = "recv"
    /\ UNCHANGED <<impl, ntasks, last, is_button_active, pcm_acc,
                   adpcm_dec_state, adpcm_enc_state, idx, pend>>
    /\ UNCHANGED cmdVars
    /\ UNCHANGED barged
    /\ UNCHANGED otaVars
    /\ UNCHANGED codecVars

\* binary audio: ignored unless the button is active and no turn is processed
OldRecvBytes(b) ==
    /\ impl = "old" /\ hpc = "recv"
    /\ (is_button_active /\ ~is_processing) => Len(speech_buffer) < MaxBuf
    /\ IF is_button_active /\ ~is_processing
       THEN LET d == adpcm_bytes_to_pcm_int16(b, adpcm_dec_state, "2.5")
                f == FrameLoop(pcm_acc \o d.samples, speech_buffer)
            IN /\ adpcm_dec_state' = d.state
               /\ pcm_acc' = f.acc
               /\ speech_buffer' = f.buf
               /\ last' = [Handled("bytes") EXCEPT
                               !.fresh = @ \o BytesOf(d.samples)]
       ELSE /\ UNCHANGED <<adpcm_dec_state, pcm_acc, speech_buffer>>
            /\ last' = Handled("bytes")
    /\ UNCHANGED <<impl, hpc, ntasks, sentLog, turnFailed, is_button_active,
                   is_processing, adpcm_enc_state, idx, pend>>
    /\ UNCHANGED cmdVars
    /\ UNCHANGED barged
    /\ UNCHANGED otaVars
    /\ UNCHANGED codecVars

\* text "RESET_ADPCM" / "SYNC_START": the decoder state is reset
OldRecvReset ==
    /\ impl = "old" /\ hpc = "recv"
    /\ adpcm_dec_state' = << 0, 0 >>
    /\ last' = Handled("text")
    /\ UNCHANGED <<impl, hpc, ntasks, sentLog, turnFailed, is_button_active,
                   is_processing, speech_buffer, pcm_acc, adpcm_enc_state, idx,
                   pend>>
    /\ UNCHANGED cmdVars
    /\ UNCHANGED barged
    /\ UNCHANGED otaVars
    /\ UNCHANGED codecVars

\* receive() raises (disconnect or error): the handler ends
OldRecvClosed ==
    /\ impl = "old" /\ hpc = "recv"
    /\ hpc' = "closed"
    /\ speech_buffer' = << >>
    /\ last' = Handled("disconnect")
    /\ UNCHANGED <<impl, ntasks, sentLog, turnFailed, is_button_active,
                   is_processing, pcm_acc, adpcm_dec_state, adpcm_enc_state,
                   idx, pend>>
    /\ UNCHANGED cmdVars
    /\ UNCHANGED barged
    /\ UNCHANGED otaVars
    /\ UNCHANGED codecVars

OldNext ==
    \/ OldHello
    \/ OldRecvStart
    \/ OldListeningSent
    \/ OldRecvEnd
    \/ OldSendRaises
    \/ OldProcessingSent
    \/ OldInferDone
    \/ OldTurnRaises
    \/ OldEmotionSent
    \/ OldBlockSent
    \/ OldBlockSlept
    \/ OldFinallySlept
    \/ \E delivered \in BOOLEAN : OldTurnEnd(delivered)
    \/ \E b \in AudioMsgs : OldRecvBytes(b)
    \/ OldRecvReset
    \/ OldRecvClosed

Next == CmdNext \/ OldNext

Spec == Init /\ [][Next]_vars

\* every await of a task or of the inline turn eventually returns or raises
TaskStep(t) ==
    TaskRun(t) \/ TaskSendDone(t) \/ TaskSendFail(t) \/ TaskSleepDone(t)
    \/ TaskCancelled(t)

OldTurnStep ==
    \/ OldListeningSent \/ OldSendRaises \/ OldProcessingSent \/ OldInferDone
    \/ OldTurnRaises \/ OldEmotionSent \/ OldBlockSent \/ OldBlockSlept
    \/ OldFinallySlept \/ OldTurnEnd(TRUE) \/ OldTurnEnd(FALSE)

FairSpec ==
    /\ Spec
    /\ \A t \in TaskIds : WF_vars(TaskStep(t))
    /\ WF_vars(OldTurnStep)

-----------------------------------------------------------------------------
(* dummy_server_cmd.py: the OTA transfer of handle_ota_command, run by       *)
(* console_loop, and the acknowledgements handled by websocket_endpoint      *)

OTA_CHUNK_SIZE == 2048
OTA_MAX_RETRIES == 3

\* the firmware images of the model: empty, one byte, one full chunk, and
\* MaxChunks chunks the last of which holds one byte
ImageSizes == {0, 1, OTA_CHUNK_SIZE, (MaxChunks - 1) * OTA_CHUNK_SIZE + 1}

\* the JSON messages of the device: {"ota_ack": s}, {"ota_nack": s}, and the
\* status reports "ready for firmware" and "error"
DevSeqs == 0..(MaxChunks - 1)
OtaJsonMsgs ==
    ({"ota_ack", "ota_nack"} \X DevSeqs) \cup {<< "ready", -1 >>, << "error", -1 >>}

sessVars == <<impl, hpc, ACTIVE_WS, recording, pcm_buf, rx_state,
              current_tts_task, tasks, ntasks, is_button_active,
              is_processing, speech_buffer, pcm_acc, adpcm_dec_state,
              adpcm_enc_state, idx, pend, sentLog, turnFailed, barged, last>>

\* mutant of ReadChunk: the read is not cut at the end of the file
ReadChunkWholeBlocks(pos) == IF pos < size THEN OTA_CHUNK_SIZE ELSE 0

\* len(f.read(OTA_CHUNK_SIZE)) with the file at position pos
ReadChunk(pos) == Max(0, Min(OTA_CHUNK_SIZE, size - pos))

\* build_ota_chunk(seq, data): header seq and len(data), then the data (the
\* bytes of the image at offset off)
build_ota_chunk(s, len, off) == << "chunk", s, len, off >>

\* console_loop reads "ota <bin>": the file exists, the request is built
ConsoleOta(sz) ==
    /\ impl = "cmd"
    /\ opc = "idle" /\ ACTIVE_WS # "None"
    /\ size' = sz
    /\ total_chunks' = (sz + OTA_CHUNK_SIZE - 1) \div OTA_CHUNK_SIZE
    /\ opc' = "send_req"
    /\ otaLog' = << >>
    /\ otaHeard' = [NoHeard EXCEPT !.result = "running"]
    /\ UNCHANGED <<seq, sent, failed_chunks, retry, ota_ack_event,
                   ota_last_ack_seq, ota_last_nack_seq>>
    /\ UNCHANGED sessVars
    /\ UNCHANGED codecVars

\* console_loop reads "ota <bin>" and the file does not exist: logged
ConsoleOtaNoFile ==
    /\ impl = "cmd"
    /\ opc = "idle" /\ ACTIVE_WS # "None"
    /\ otaLog' = << >>
    /\ otaHeard' = [NoHeard EXCEPT !.result = "nofile"]
    /\ UNCHANGED <<opc, size, total_chunks, seq, sent, failed_chunks, retry,
                   ota_ack_event, ota_last_ack_seq, ota_last_nack_seq>>
    /\ UNCHANGED sessVars
    /\ UNCHANGED codecVars

\* mutant of OtaLoopExit: no completion message after a failed chunk
OtaLoopExitQuietOnFailure(failed) == IF failed > 0 THEN "idle" ELSE "send_complete"

\* after the loop: the summary is logged whatever the count of failed chunks,
\* then OTA_COMPLETE is sent
OtaLoopExit(failed) == "send_complete"

\* mutant of OtaLoopHead: a chunk that exhausted its retries ends the loop
OtaLoopHeadStopsOnFailure(pos) ==
    IF ReadChunk(pos) = 0 \/ failed_chunks > 0 THEN "send_complete" ELSE "send_chunk"

\* the head of the chunk loop: read, then send the chunk or leave the loop
OtaLoopHead(pos) ==
    IF ReadChunk(pos) = 0 THEN OtaLoopExit(failed_chunks) ELSE "send_chunk"

\* the send of the request returns: the ack state and the counters are reset
\* and the first chunk is read
OtaRequestSent ==
    /\ opc = "send_req" /\ hpc = "recv"
    /\ otaLog' = Append(otaLog, << "request", size, total_chunks, OTA_CHUNK_SIZE >>)
    /\ ota_last_ack_seq' = -1
    /\ ota_last_nack_seq' = -1
    /\ seq' = 0 /\ sent' = 0 /\ failed_chunks' = 0 /\ retry' = 0
    /\ opc' = OtaLoopHead(0)
    /\ UNCHANGED <<size, total_chunks, ota_ack_event, otaHeard>>
    /\ UNCHANGED sessVars
    /\ UNCHANGED codecVars

\* mutant of ConsoleAfterOtaError: only the try of handle_ota_command catches
ConsoleAfterOtaErrorUncaught(at) == IF at = "send_chunk" THEN "idle" ELSE "crashed"

\* where console_loop is after a send of the transfer raised at position at:
\* the chunk loop's except returns to console_loop, the except Exception of
\* console_loop catches what the request or OTA_COMPLETE raised; both ways
\* the while loop goes on to the next line of input
ConsoleAfterOtaError(at) == "idle"

\* a send outside the try of handle_ota_command raises (the request or
\* OTA_COMPLETE): the exception reaches the except of console_loop
OtaOuterSendRaises ==
    /\ opc \in {"send_req", "send_complete"}
    /\ opc' = ConsoleAfterOtaError(opc)
    /\ otaHeard' = [otaHeard EXCEPT !.result = "aborted"]
    /\ UNCHANGED <<size, total_chunks, seq, sent, failed_chunks, retry,
                   ota_ack_event, ota_last_ack_seq, ota_last_nack_seq, otaLog>>
    /\ UNCHANGED sessVars
    /\ UNCHANGED codecVars

\* send_bytes(chunk) returns; wait_for_ack clears the event and waits
OtaChunkSent ==
    /\ opc = "send_chunk" /\ hpc = "recv"
    /\ otaLog' = Append(otaLog, build_ota_chunk(seq, ReadChunk(sent), sent))
    /\ ota_ack_event' = FALSE
    /\ opc' = "wait_ack"
    /\ otaHeard' = [otaHeard EXCEPT !.waker = << "none", -1 >>]
    /\ UNCHANGED <<size, total_chunks, seq, sent, failed_chunks, retry,
                   ota_last_ack_seq, ota_last_nack_seq>>
    /\ UNCHANGED sessVars
    /\ UNCHANGED codecVars

\* send_bytes(chunk) raises: except Exception, logged, return
OtaChunkRaises ==
    /\ opc = "send_chunk"
    /\ opc' = ConsoleAfterOtaError(opc)
    /\ otaHeard' = [otaHeard EXCEPT !.result = "aborted"]
    /\ UNCHANGED <<size, total_chunks, seq, sent, failed_chunks, retry,
                   ota_ack_event, ota_last_ack_seq, ota_last_nack_seq, otaLog>>
    /\ UNCHANGED sessVars
    /\ UNCHANGED codecVars

\* wait_for_ack after the event was set: True only if the last ack is for
\* expected_seq; a nack for it and anything else give False
AckResult(last_ack, last_nack, expected_seq) ==
    IF last_ack = expected_seq THEN TRUE
    ELSE IF last_nack = expected_seq THEN FALSE
    ELSE FALSE

\* mutant of RetriesLeft: one attempt more than OTA_MAX_RETRIES
RetriesLeftOneMore(r) == r + 1 <= OTA_MAX_RETRIES

\* for retry in range(OTA_MAX_RETRIES): another iteration follows attempt r
RetriesLeft(r) == r + 1 < OTA_MAX_RETRIES

\* how the wait of the current attempt ended, by what the device really sent
WaitEnd(timeout) ==
    IF timeout THEN "timeout"
    ELSE IF otaHeard.waker = << "ota_ack", seq >> THEN "ack"
    ELSE IF otaHeard.waker = << "ota_nack", seq >> THEN "nack"
    ELSE "other"

\* the rest of the retry loop's body after wait_for_ack returned ok, up to
\* the next await: the next attempt, or the end of the chunk and sleep(0)
AfterWait(ok, timeout) ==
    LET bad == otaHeard.badEnds + (IF WaitEnd(timeout) \in {"timeout", "nack"} THEN 1 ELSE 0)
    IN
    IF ~ok /\ RetriesLeft(retry)
    THEN /\ retry' = retry + 1
         /\ opc' = "send_chunk"
         /\ otaHeard' = [otaHeard EXCEPT !.badEnds = bad, !.early = FALSE]
         /\ UNCHANGED <<seq, sent, failed_chunks>>
    ELSE /\ failed_chunks' = IF ok THEN failed_chunks ELSE failed_chunks + 1
         /\ sent' = sent + ReadChunk(sent)
         /\ seq' = seq + 1
         /\ opc' = "yield"
         /\ otaHeard' = [otaHeard EXCEPT
                           !.badEnds = 0, !.early = FALSE,
                           !.exhausted = IF bad >= OTA_MAX_RETRIES THEN @ + 1 ELSE @]
         /\ UNCHANGED retry

\* the event was set: wait_for returns and the last seqs are compared
OtaAckWake ==
    /\ opc = "wait_ack" /\ ota_ack_event
    /\ AfterWait(AckResult(ota_last_ack_seq, ota_last_nack_seq, seq), FALSE)
    /\ UNCHANGED <<size, total_chunks, ota_ack_event, ota_last_ack_seq,
                   ota_last_nack_seq, otaLog>>
    /\ UNCHANGED sessVars
    /\ UNCHANGED codecVars

\* asyncio.TimeoutError: logged, wait_for_ack returns False
OtaAckTimeout ==
    /\ opc = "wait_ack" /\ ~ota_ack_event
    /\ AfterWait(FALSE, TRUE)
    /\ UNCHANGED <<size, total_chunks, ota_ack_event, ota_last_ack_seq,
                   ota_last_nack_seq, otaLog>>
    /\ UNCHANGED sessVars
    /\ UNCHANGED codecVars

\* asyncio.sleep(0) returns: the next read
OtaYielded ==
    /\ opc = "yield"
    /\ opc' = OtaLoopHead(sent)
    /\ retry' = 0
    /\ UNCHANGED <<size, total_chunks, seq, sent, failed_chunks, ota_ack_event,
                   ota_last_ack_seq, ota_last_nack_seq, otaLog, otaHeard>>
    /\ UNCHANGED sessVars
    /\ UNCHANGED codecVars

\* the send of OTA_COMPLETE returns: handle_ota_command returns
OtaCompleteSent ==
    /\ opc = "send_complete" /\ hpc = "recv"
    /\ otaLog' = Append(otaLog, << "complete", 0, 0, 0 >>)
    /\ opc' = "idle"
    /\ otaHeard' = [otaHeard EXCEPT !.result = "completed"]
    /\ UNCHANGED <<size, total_chunks, seq, sent, failed_chunks, retry,
                   ota_ack_event, ota_last_ack_seq, ota_last_nack_seq>>
    /\ UNCHANGED sessVars
    /\ UNCHANGED codecVars

\* websocket_endpoint receives a JSON object of the device: handle_ota_ack
\* for ota_ack / ota_nack, a log line for anything else
RecvOtaJson(m) ==
    /\ impl = "cmd" /\ hpc = "recv"
    /\ IF m[1] = "ota_ack"
       THEN ota_last_ack_seq' = m[2] /\ ota_ack_event' = TRUE
                /\ UNCHANGED ota_last_nack_seq
       ELSE IF m[1] = "ota_nack"
       THEN ota_last_nack_seq' = m[2] /\ ota_ack_event' = TRUE
                /\ UNCHANGED ota_last_ack_seq
       ELSE UNCHANGED <<ota_last_ack_seq, ota_last_nack_seq, ota_ack_event>>
    /\ otaHeard' =
         IF m[1] \in {"ota_ack", "ota_nack"}
         THEN IF opc = "wait_ack" /\ (\/ otaHeard.waker[1] = "none"
                                      \/ m = << "ota_ack", seq >>
                                      \/ (otaHeard.waker[2] # seq /\ m[2] = seq))
              THEN [otaHeard EXCEPT !.waker = m]
              ELSE IF opc = "send_chunk" /\ m = << "ota_ack", seq >>
              THEN [otaHeard EXCEPT !.early = TRUE]
              ELSE otaHeard
         ELSE IF opc \notin {"idle", "send_req"} /\ otaHeard.status = "none"
              THEN [otaHeard EXCEPT !.status = m[1]] ELSE otaHeard
    /\ UNCHANGED <<opc, size, total_chunks, seq, sent, failed_chunks, retry,
                   otaLog>>
    /\ UNCHANGED sessVars
    /\ UNCHANGED codecVars

OtaStep ==
    \/ OtaRequestSent \/ OtaOuterSendRaises \/ OtaChunkSent \/ OtaChunkRaises
    \/ OtaAckWake \/ OtaAckTimeout \/ OtaYielded \/ OtaCompleteSent

OtaNext ==
    \/ \E sz \in ImageSizes : ConsoleOta(sz)
    \/ ConsoleOtaNoFile
    \/ OtaStep
    \/ \E m \in OtaJsonMsgs : RecvOtaJson(m)
    \/ RecvDisconnect
    \/ RecvError

\* the console and its OTA command exist in dummy_server_cmd.py only
InitOta == Init /\ impl = "cmd"

SpecOta == InitOta /\ [][OtaNext]_vars

\* the event loop resumes console_loop whenever its await can return
FairSpecOta == SpecOta /\ WF_vars(OtaStep)

-----------------------------------------------------------------------------
(* Properties *)

\* number of blocks of the response audio
NumBlocks == (Len(ReplyPcm) + BlockSamples - 1) \div BlockSamples

AudioCount(t) ==
    Cardinality({i \in 1..Len(sentLog[t]) : sentLog[t][i].type = "bytes"})

EndCount(t) ==
    Cardinality({i \in 1..Len(sentLog[t]) : sentLog[t][i] = Text("TTS_END")})

\* the turn's stream has begun and has not finished
Streaming(t) ==
    IF impl = "cmd" THEN tasks[t].pc \in SendPcs \cup SleepPcs
    ELSE ntasks = t /\ hpc \in OldProcessingPcs \cup OldSpeakingPcs

\* C1: a response stream that was active when a START was handled sends
\* nothing after that START: no audio block and no TTS_END.
C1_BargedStreamSilent ==
    [][\A t \in barged : /\ AudioCount(t)' = AudioCount(t)
                          /\ EndCount(t)' = EndCount(t)]_vars

\* C2: TTS_END is sent only on natural completion: a turn that has sent TTS_END
\* has sent every block of its response audio and nothing in it raised or was
\* cancelled.
C2_EndOnlyOnCompletion ==
    \A t \in TaskIds :
        HasSent(t, "TTS_END") =>
            /\ turnFailed[t] = {}
            /\ AudioCount(t) \in {0, NumBlocks}

\* the turn's stream was cancelled or a send of it raised
Interrupted(t) == turnFailed[t] \cap {"cancelled", "transport"} # {}

\* C3: a response stream that is neither cancelled nor hit by a transport
\* error eventually sends TTS_END, exactly once, as its last message after
\* all of its audio blocks.
C3_StreamEndsWithSentinel ==
    /\ [](\A t \in TaskIds :
            /\ EndCount(t) <= 1
            /\ HasSent(t, "TTS_END") =>
                   sentLog[t][Len(sentLog[t])] = Text("TTS_END")
            /\ (HasSent(t, "TTS_END") /\ turnFailed[t] = {}) =>
                   AudioCount(t) \in (IF impl = "cmd" THEN {NumBlocks}
                                      ELSE {0, NumBlocks}))
    /\ \A t \in TaskIds :
          Streaming(t) ~> (HasSent(t, "TTS_END") \/ Interrupted(t))

\* a stream has sent all its blocks and then TTS_END, nothing having raised
W3_StreamCompleted ==
    \E t \in TaskIds :
        /\ ~Streaming(t) /\ turnFailed[t] = {}
        /\ AudioCount(t) = NumBlocks
        /\ EndCount(t) = 1
        /\ sentLog[t][Len(sentLog[t])] = Text("TTS_END")

\* C4: an END handled while the utterance is empty starts nothing: no turn,
\* no task, no message sent, and the session is Idle afterwards.
C4_EmptyEndIsNoOp ==
    [][((RecvEnd \/ OldRecvEnd) /\ Utterance = << >>) =>
          /\ ntasks' = ntasks
          /\ tasks' = tasks
          /\ current_tts_task' = current_tts_task
          /\ sentLog' = sentLog
          /\ hpc' = hpc
          /\ SessionState' = "Idle"]_vars

\* an END has been handled while Listening with nothing buffered
W4_EmptyEndHandled ==
    /\ last.msg = "END" /\ last.empty /\ last.pre = "Listening"
    /\ SessionState = "Idle"

\* C5: Processing is entered only from Listening: a message handled in any
\* other state starts no new turn.
C5_ProcessingOnlyFromListening ==
    [][/\ ntasks' > ntasks => SessionState = "Listening"
       /\ (SessionState' = "Processing" /\ SessionState # "Processing") =>
              SessionState = "Listening"]_vars

\* C6: once a START received while Idle has been handled, the session is
\* Listening and exactly one listening acknowledgement has been sent.
C6_StartAcknowledged ==
    (last.msg = "START" /\ last.pre = "Idle" /\ hpc = "recv") =>
        (SessionState = "Listening" /\ last.acks = 1)

\* the receive-side codec state and the buffered audio as one byte stream
RxState == IF impl = "cmd" THEN rx_state ELSE adpcm_dec_state

RECURSIVE Flatten(_)
Flatten(frames) ==
    IF frames = << >> THEN << >> ELSE Head(frames) \o Flatten(Tail(frames))

UtteranceStream ==
    IF impl = "cmd" THEN Flatten(pcm_buf)
    ELSE Flatten(speech_buffer) \o BytesOf(pcm_acc)

Decoded(b) ==
    IF impl = "cmd" THEN adpcm_decode(b, rx_state).pcm
    ELSE BytesOf(adpcm_bytes_to_pcm_int16(b, adpcm_dec_state, "2.5").samples)

C8_UtteranceClearedAtTurnEnd ==
    (hpc = "recv" /\ last.msg \in {"START", "END"}) => Utterance = << >>

\* the turn's audio blocks are being sent
BlocksInFlight(t) ==
    IF impl = "cmd" THEN tasks[t].pc \in {"send_blk", "sleep_blk"}
    ELSE ntasks = t /\ hpc \in {"send_blk", "sleep_blk"}

\* C9: while the blocks of a response stream are being sent, the handler is
\* at its receive() and can handle a START.
C9_ReceivesWhileStreaming ==
    (\E t \in TaskIds : BlocksInFlight(t)) => hpc \in {"recv", "closed"}

\* C10: when the handler ends on a disconnect or on an error of receive() or
\* of the transport, every stream in flight is cancelled and the utterance is
\* dropped; after the handler has ended nothing more is sent.
C10_TeardownCancelsStream ==
    [][/\ (RecvDisconnect \/ RecvError \/ OldRecvClosed \/ OldSendRaises) =>
              /\ hpc' = "closed"
              /\ impl = "cmd" => \A t \in StreamsActive : tasks'[t].cancel
              /\ Utterance' = << >>
       /\ hpc = "closed" => sentLog' = sentLog]_vars

C12_CancelOnlyBetweenSends ==
    /\ [][\A t \in TaskIds :
            TaskCancelled(t) => tasks[t].pc \notin SendPcs]_vars
    /\ [][\A t \in TaskIds :
            tasks[t].result = "cancelled" => sentLog'[t] = sentLog[t]]_vars

\* positions of the chunk sends in the log of the transfer
ChunkIdx == {i \in 1..Len(otaLog) : otaLog[i][1] = "chunk"}

ChunkSends(s) == Cardinality({i \in ChunkIdx : otaLog[i][2] = s})

\* the transfer sent its request and handle_ota_command is over
TransferEnded == opc = "idle" /\ otaLog # << >>

\* chunks go out in increasing seq order, one seq at a time: a send carries
\* the current seq, and seq moves on by one when the chunk is acknowledged or
\* has used up its attempts
ChunkOrder ==
    /\ [](\A i \in ChunkIdx :
             /\ otaLog[i][2] <= seq /\ otaLog[i][2] < total_chunks
             /\ \A j \in ChunkIdx :
                   i < j => otaLog[i][2] <= otaLog[j][2])
    /\ [][((otaLog' # otaLog /\ otaLog' # << >>
                 /\ otaLog'[Len(otaLog')][1] = "chunk")
               => (otaLog'[Len(otaLog')][2] = seq /\ seq' = seq))
           /\ ((seq' # seq) => (\/ seq' = seq + 1 /\ opc = "wait_ack"
                                \/ seq' = 0 /\ opc = "send_req"))]_vars

\* C13: when a transfer is over, every seq of 0..total_chunks-1 has been sent
\* at least once and has become terminal once, in increasing order, whatever
\* the outcome of each chunk.
C13_EverySeqSentInOrder ==
    /\ ChunkOrder
    /\ [](TransferEnded =>
             /\ seq = total_chunks
             /\ \A s \in 0..(total_chunks - 1) : ChunkSends(s) >= 1)

\* C13 as amended: the same, unless a send of the transfer raises; then the
\* transfer stops there: every seq before the current one has been sent and
\* is terminal, and no later seq is ever sent.  A transfer whose sends all
\* return runs to its end.
C13_EverySeqSentUnlessSendRaises ==
    /\ ChunkOrder
    /\ [](TransferEnded =>
             /\ \A s \in 0..(seq - 1) : ChunkSends(s) >= 1
             /\ (otaHeard.result = "completed") =>
                   (/\ seq = total_chunks
                    /\ \A s \in 0..(total_chunks - 1) : ChunkSends(s) >= 1)
             /\ (otaHeard.result # "completed") => (otaHeard.result = "aborted"))
    /\ (otaHeard.result = "running") ~> (otaHeard.result \in {"completed", "aborted"})

\* a transfer of MaxChunks chunks completed although a chunk before the last
\* had used up its attempts
W13_CompletedPastFailedChunk ==
    /\ otaHeard.result = "completed" /\ total_chunks = MaxChunks
    /\ failed_chunks = 1 /\ ota_last_ack_seq = MaxChunks - 1

CompleteCount ==
    Cardinality({i \in 1..Len(otaLog) : otaLog[i][1] = "complete"})

\* OTA_COMPLETE is never sent twice and nothing is sent after it
CompleteIsLast ==
    /\ CompleteCount <= 1
    /\ CompleteCount = 1 => otaLog[Len(otaLog)][1] = "complete"

\* C14: a transfer that sent its request has, when it is over, sent
\* OTA_COMPLETE exactly once, as its last message, however many chunks failed.
C14_CompleteSentOnce ==
    /\ CompleteIsLast
    /\ TransferEnded => CompleteCount = 1

\* C14 as amended: a transfer whose sends all return sends OTA_COMPLETE
\* exactly once, after its last chunk send, however many chunks failed; a
\* transfer in which a send raises is aborted and sends no OTA_COMPLETE.
C14_CompleteSentOnceUnlessSendRaises ==
    /\ [](/\ CompleteIsLast
          /\ TransferEnded =>
                /\ otaHeard.result \in {"completed", "aborted"}
                /\ (otaHeard.result = "completed") <=> (CompleteCount = 1)
                /\ (CompleteCount = 1) =>
                      \A s \in 0..(total_chunks - 1) : ChunkSends(s) >= 1)
    /\ [][(otaHeard.result' = "aborted" /\ otaHeard.result # "aborted")
             => (OtaOuterSendRaises \/ OtaChunkRaises)]_vars
    /\ (opc \in {"send_chunk", "wait_ack", "yield", "send_complete"})
          ~> (otaHeard.result \in {"completed", "aborted"})

\* every chunk of a MaxChunks-chunk transfer used up its attempts and
\* OTA_COMPLETE was sent
W14_CompleteAfterAllChunksFailed ==
    /\ otaHeard.result = "completed"
    /\ total_chunks = MaxChunks /\ failed_chunks = MaxChunks
    /\ otaLog[Len(otaLog)][1] = "complete"

\* C15: no chunk is sent, or handed to the connection, unless the first status
\* report of the device after the request was the readiness signal; after an
\* error report no chunk is sent at all.
C15_NoChunkBeforeReady ==
    (ChunkIdx # {} \/ opc \in {"send_chunk", "wait_ack"})
        => otaHeard.status = "ready"

\* C16: a wait for the acknowledgement of seq is ended by the event only if
\* an ota_ack or ota_nack carrying that seq arrived during the wait; messages
\* with other seqs leave the wait, the attempts and the log as they are.
C16_OtherSeqDoesNotEndWait ==
    [][OtaAckWake => otaHeard.waker[2] = seq]_vars

\* C17: an ota_nack for the awaited seq sets the event, so the wait ends
\* without the timeout; when the wait ends having heard that nack (and no ack
\* of the awaited seq) and attempts remain, the same chunk is sent again.
C17_NackEndsWaitAndResends ==
    /\ [][(RecvOtaJson(<< "ota_nack", seq >>) /\ opc = "wait_ack")
             => ota_ack_event']_vars
    /\ [][(opc = "wait_ack" /\ ota_ack_event) => ~OtaAckTimeout]_vars
    /\ [][(OtaAckWake /\ otaHeard.waker = << "ota_nack", seq >>
              /\ RetriesLeft(retry))
             => (opc' = "send_chunk" /\ seq' = seq /\ sent' = sent
                 /\ retry' = retry + 1)]_vars

\* C18: a chunk is sent at most OTA_MAX_RETRIES times, every send of a seq
\* carries the same bytes, a chunk is sent again only when the wait of the
\* previous attempt ended in the timeout or in a nack of its seq, and when the
\* loop leaves the chunk it was sent k times if the ack of its seq came in
\* the wait of attempt k, OTA_MAX_RETRIES times if no such ack came.
C18_ResendOnlyOnTimeoutOrNack ==
    /\ [](\A s \in DevSeqs : ChunkSends(s) <= OTA_MAX_RETRIES)
    /\ [](\A i, j \in ChunkIdx :
             otaLog[i][2] = otaLog[j][2] => otaLog[i] = otaLog[j])
    /\ [][(opc = "wait_ack" /\ opc' = "send_chunk")
             => WaitEnd(~ota_ack_event) \in {"timeout", "nack"}]_vars
    /\ [][(opc = "wait_ack" /\ opc' = "yield")
             => ChunkSends(seq) = IF WaitEnd(~ota_ack_event) = "ack"
                                  THEN retry + 1 ELSE OTA_MAX_RETRIES]_vars

\* C19: when the chunk loop is over and the summary is logged, sent is the
\* size of the image, seq is total_chunks, and failed_chunks is the number of
\* chunks whose OTA_MAX_RETRIES attempts all ended in the timeout or in a nack
\* of their seq.
C19_AggregateResult ==
    opc = "send_complete" =>
        /\ sent = size
        /\ seq = total_chunks
        /\ failed_chunks = otaHeard.exhausted

\* the payload length carried by the sends of seq s
PayloadLen(s) == otaLog[CHOOSE i \in ChunkIdx : otaLog[i][2] = s][3]

RECURSIVE SumPayloads(_)
\* the payload lengths of the seqs 0..n-1 added up
SumPayloads(n) == IF n = 0 THEN 0 ELSE SumPayloads(n - 1) + PayloadLen(n - 1)

\* the seqs that were sent
SeqsSent == {otaLog[i][2] : i \in ChunkIdx}

\* C20: total_chunks is the least n with n * OTA_CHUNK_SIZE >= size; every
\* chunk sent carries OTA_CHUNK_SIZE bytes of payload, except the chunk of seq
\* total_chunks - 1, which carries size - (total_chunks - 1) * OTA_CHUNK_SIZE;
\* when the chunk loop is over the seqs sent are the total_chunks seqs
\* 0..total_chunks-1 and their payload lengths add up to size.
C20_ChunkCountAndLengths ==
    otaLog # << >> =>
        /\ total_chunks * OTA_CHUNK_SIZE >= size
        /\ total_chunks > 0 => (total_chunks - 1) * OTA_CHUNK_SIZE < size
        /\ \A i \in ChunkIdx :
              otaLog[i][3] = IF otaLog[i][2] < total_chunks - 1
                             THEN OTA_CHUNK_SIZE
                             ELSE size - (total_chunks - 1) * OTA_CHUNK_SIZE
        /\ (opc = "send_complete" \/ otaHeard.result = "completed") =>
              /\ SeqsSent = 0..(total_chunks - 1)
              /\ Cardinality(SeqsSent) = total_chunks
              /\ SumPayloads(total_chunks) = size

\* a transfer of MaxChunks chunks whose last chunk carries one byte has sent
\* OTA_COMPLETE
W20_CompletedWithShortLastChunk ==
    /\ otaHeard.result = "completed"
    /\ size = (MaxChunks - 1) * OTA_CHUNK_SIZE + 1
    /\ total_chunks = MaxChunks
    /\ \A s \in 0..(MaxChunks - 2) : PayloadLen(s) = OTA_CHUNK_SIZE
    /\ PayloadLen(MaxChunks - 1) = 1

\* websocket_endpoint of another connection (accepted before the selected
\* one, so ACTIVE_WS is not it) receives {"ota_ack": s} or {"ota_nack": s}:
\* the same handle_ota_ack on the same globals
OtherConnRecvOtaJson(m) ==
    /\ impl = "cmd"
    /\ m[1] \in {"ota_ack", "ota_nack"}
    /\ IF m[1] = "ota_ack"
       THEN ota_last_ack_seq' = m[2] /\ UNCHANGED ota_last_nack_seq
       ELSE ota_last_nack_seq' = m[2] /\ UNCHANGED ota_last_ack_seq
    /\ ota_ack_event' = TRUE
    /\ UNCHANGED <<opc, size, total_chunks, seq, sent, failed_chunks, retry,
                   otaLog, otaHeard>>
    /\ UNCHANGED sessVars
    /\ UNCHANGED codecVars

OtaNextTwoConns ==
    \/ OtaNext
    \/ \E m \in OtaJsonMsgs : OtherConnRecvOtaJson(m)

\* the console, the selected device and one more connected device
SpecOtaTwoConns == InitOta /\ [][OtaNextTwoConns]_vars

\* C21: a wait of the transfer is ended by the event only if the connection
\* the transfer streams to sent an ota_ack or ota_nack during that wait; what
\* another connection receives does not end it.
C21_AckScopedToSelectedDevice ==
    [][OtaAckWake => otaHeard.waker[1] # "none"]_vars

\* the audio session of the selected connection together with a transfer of
\* a one-byte image to it, which the device does not answer: every wait of
\* the transfer ends in the timeout
SessionOtaNext ==
    \/ CmdNext
    \/ ConsoleOta(1)
    \/ OtaRequestSent \/ OtaOuterSendRaises \/ OtaChunkSent \/ OtaChunkRaises
    \/ OtaAckTimeout \/ OtaYielded \/ OtaCompleteSent

SpecSessionOta == InitOta /\ [][SessionOtaNext]_vars

\* the request of the transfer was sent and handle_ota_command has not returned
OtaInFlight == opc \notin {"idle", "send_req"}

\* C22: while a transfer is in flight no send_wav task sends an audio block
\* or TTS_END on the connection, and no transfer starts while a response
\* stream is active on it.
C22_OtaExcludesAudio ==
    /\ [][\A t \in TaskIds :
             (TaskSendDone(t) /\ (tasks[t].pend.type = "bytes"
                                    \/ tasks[t].pend = Text("TTS_END")))
             => ~OtaInFlight]_vars
    /\ [][(opc = "idle" /\ opc' = "send_req") => StreamsActive = {}]_vars

\* C23: a send of the transfer that raises (request, chunk or OTA_COMPLETE)
\* ends the transfer with nothing more sent for it, and console_loop is back
\* at reading commands: a new transfer can be started while a device is
\* connected.
C23_TransportErrorAbortsTransfer ==
    /\ [][(OtaOuterSendRaises \/ OtaChunkRaises)
             => (otaHeard'.result = "aborted" /\ otaLog' = otaLog)]_vars
    /\ [][(otaHeard.result = "aborted" /\ otaHeard'.result = "aborted")
             => otaLog' = otaLog]_vars
    /\ [](otaHeard.result = "aborted" => opc = "idle")
    /\ []((otaHeard.result = "aborted" /\ ACTIVE_WS # "None")
             => ENABLED ConsoleOta(1))

\* the transfer was aborted by a send that raised after a chunk had been sent
W23_AbortedAfterChunk ==
    /\ otaHeard.result = "aborted"
    /\ opc = "idle"
    /\ ChunkIdx # {}

-----------------------------------------------------------------------------
(* The codec functions of both servers applied to chosen inputs *)

\* starting states, samples and bytes the functions are applied to
CodecPredictors == {-32768, -1, 0, 32767}
CodecIndexes == {0, 1, 87, 88}
CodecSampleValues == {-32768, -100, 0, 9, 32767}
CodecBytes == {0, 76, 119, 143, 248, 255}
Gains == {"1.0", "2.5"}

SeqsUpTo(S, n) == UNION {[1..k -> S] : k \in 0..n}

\* the encoder of the running server on int16 samples: [out, state]
Encode(samples, state) ==
    IF impl = "cmd" THEN adpcm_encode(BytesOf(samples), state)
    ELSE adpcm_encode_pcm_int16_to_bytes(samples, state)

\* the decoder of the running server: [samples, state]
Decode(adpcm, state, gain) ==
    IF impl = "cmd"
    THEN CHOOSE r \in { [samples |-> SamplesOf(d.pcm), state |-> d.state]
                        : d \in { adpcm_decode(adpcm, state) } } : TRUE
    ELSE adpcm_bytes_to_pcm_int16(adpcm, state, gain)

\* the nibbles of the bytes in the order the decoder's loop takes them
NibblesOf(adpcm) ==
    [k \in 1..(2 * Len(adpcm)) |->
        LET b == adpcm[(k + 1) \div 2]
        IN IF (k % 2 = 1) = (impl = "cmd") THEN (b \div 16) % 16 ELSE b % 16]

\* one iteration of the decoder's loop / of the encoder's loop
NibbleStep(state, nibble) ==
    IF impl = "cmd" THEN DecodeNibble(state, nibble)
    ELSE OldDecodeNibble(state, nibble)

SampleStep(state, s) ==
    IF impl = "cmd" THEN EncodeSample(state, s)
    ELSE [code |-> OldEncodeSample(state, s).nibble,
          state |-> OldEncodeSample(state, s).state]

\* the decoder's (predictor, index) after each nibble
RECURSIVE DecodeTrace(_, _)
DecodeTrace(nibbles, state) ==
    IF nibbles = << >> THEN << >>
    ELSE CHOOSE r \in { << st >> \o DecodeTrace(Tail(nibbles), st)
                        : st \in { NibbleStep(state, Head(nibbles)) } } : TRUE

\* the encoder's code and (predictor, index) after each sample
RECURSIVE EncodeTrace(_, _)
EncodeTrace(samples, state) ==
    IF samples = << >> THEN << >>
    ELSE CHOOSE r \in { << e >> \o EncodeTrace(Tail(samples), e.state)
                        : e \in { SampleStep(state, Head(samples)) } } : TRUE

\* a starting state is chosen
CodecReset(p, i) ==
    /\ codec' = [NoCodec EXCEPT !.phase = "start", !.start = << p, i >>]
    /\ UNCHANGED sessVars
    /\ UNCHANGED otaVars

\* encode(samples, start)
CodecEncode(samples) ==
    /\ codec.phase = "start"
    /\ LET e == Encode(samples, codec.start)
       IN codec' = [codec EXCEPT !.phase = "encoded", !.samples = samples,
                                 !.out = e.out, !.enc_state = e.state]
    /\ UNCHANGED sessVars
    /\ UNCHANGED otaVars

\* decode(out, start) of the bytes the encoder returned
CodecDecode(gain) ==
    /\ codec.phase = "encoded"
    /\ impl = "cmd" => gain = "1.0"
    /\ LET d == Decode(codec.out, codec.start, gain)
       IN codec' = [codec EXCEPT !.phase = "decoded", !.gain = gain,
                                 !.decoded = d.samples, !.dec_state = d.state]
    /\ UNCHANGED sessVars
    /\ UNCHANGED otaVars

\* decode(adpcm, start) of bytes of the device
CodecDecodeBytes(adpcm, gain) ==
    /\ codec.phase = "start"
    /\ impl = "cmd" => gain = "1.0"
    /\ LET d == Decode(adpcm, codec.start, gain)
       IN codec' = [codec EXCEPT !.phase = "decoded_raw", !.out = adpcm,
                                 !.gain = gain, !.decoded = d.samples,
                                 !.dec_state = d.state]
    /\ UNCHANGED sessVars
    /\ UNCHANGED otaVars

CodecNext ==
    \/ \E p \in CodecPredictors, i \in CodecIndexes : CodecReset(p, i)
    \/ \E samples \in SeqsUpTo(CodecSampleValues, MaxSamples) : CodecEncode(samples)
    \/ \E gain \in Gains : CodecDecode(gain)
    \/ \E adpcm \in SeqsUpTo(CodecBytes, MaxBytes), gain \in Gains :
          CodecDecodeBytes(adpcm, gain)

SpecCodec == Init /\ [][CodecNext]_vars

InRange(st) == st[1] \in -32768..32767 /\ st[2] \in 0..88

\* C24: from a starting state in range, the state after every sample the
\* encoder processed and after every nibble the decoder processed has its
\* predictor in [-32768, 32767] and its index in [0, 88], and so has the
\* state the call returns.
C24_CodecStateInRange ==
    /\ codec.phase = "encoded" =>
          /\ \A k \in 1..Len(codec.samples) :
                InRange(EncodeTrace(codec.samples, codec.start)[k].state)
          /\ InRange(codec.enc_state)
    /\ codec.phase \in {"decoded", "decoded_raw"} =>
          /\ \A k \in 1..(2 * Len(codec.out)) :
                InRange(DecodeTrace(NibblesOf(codec.out), codec.start)[k])
          /\ codec.dec_state =
                IF codec.out = << >> THEN codec.start
                ELSE DecodeTrace(NibblesOf(codec.out), codec.start)
                         [2 * Len(codec.out)]
          /\ InRange(codec.dec_state)

\* MaxBytes bytes were decoded from the highest state and both clamps held
\* the state there
W24_DecodedAtUpperBounds ==
    /\ codec.phase = "decoded_raw"
    /\ Len(codec.out) = MaxBytes
    /\ codec.start = << 32767, 88 >>
    /\ codec.dec_state = << 32767, 88 >>

\* C25: for an even number of samples, decoding the bytes the encoder
\* returned, from the encoder's starting state, takes the decoder through the
\* encoder's states: after the k-th nibble its (predictor, index) is the
\* encoder's after the k-th sample, the nibbles it unpacks are the encoder's
\* codes in order, the returned states are equal, and (gain 1.0) the k-th
\* decoded sample is the encoder's predictor after the k-th sample.
C25_EncoderDecoderLockstep ==
    (codec.phase = "decoded" /\ Len(codec.samples) % 2 = 0) =>
        LET enc == EncodeTrace(codec.samples, codec.start)
            n == Len(codec.samples)
        IN /\ NibblesOf(codec.out) = [k \in 1..n |-> enc[k].code]
           /\ DecodeTrace(NibblesOf(codec.out), codec.start)
                 = [k \in 1..n |-> enc[k].state]
           /\ codec.dec_state = codec.enc_state
           /\ codec.gain = "1.0" =>
                 codec.decoded = [k \in 1..n |-> enc[k].state[1]]

\* four samples were encoded into two bytes and decoded again, the state
\* moved and the decoded samples are not the samples that went in
W25_LossyRoundTrip ==
    /\ codec.phase = "decoded"
    /\ Len(codec.samples) = 4
    /\ Len(codec.out) = 2
    /\ codec.dec_state # codec.start
    /\ codec.decoded # codec.samples

\* C26: the bytes the encoder returns for n samples hold the code of every
\* sample, the last one of an odd n included: there are ceil(n/2) bytes, and a
\* decoder of them is, after n nibbles, in the state the encoder returned.
C26_OddLengthNotTruncated ==
    codec.phase = "encoded" =>
        LET n == Len(codec.samples)
        IN /\ Len(codec.out) = (n + 1) \div 2
           /\ n > 0 => DecodeTrace(NibblesOf(codec.out), codec.start)[n]
                          = codec.enc_state

\* the audio blocks turn t has sent, in order
AudioSent(t) == SelectSeq(sentLog[t], LAMBDA m : m.type = "bytes")

\* the blocks of a response stream that is at sample position pos with the
\* encoder in `state`: each block is encoded from the state the block before
\* it left
RECURSIVE StreamFrom(_, _)
StreamFrom(pos, state) ==
    IF pos >= Len(ReplyPcm) THEN << >>
    ELSE LET e == IF impl = "cmd" THEN adpcm_encode(ReadFrames(pos), state)
                  ELSE adpcm_encode_pcm_int16_to_bytes(OldChunk(pos), state)
         IN << Bin(e.out) >> \o StreamFrom(pos + BlockSamples, e.state)

\* the transmit-side codec state of turn t
TxState(t) == IF impl = "cmd" THEN tasks[t].tx_state ELSE adpcm_enc_state

C28_UtteranceBounded ==
    SessionState = "Listening" => Len(Utterance) < MaxBuf

\* the tasks that are inside their block loop and not cancelled
InBlockLoop == {t \in TaskIds : Active(t) /\ tasks[t].pc \in {"send_blk", "sleep_blk"}}

\* C29: at most one send_wav task of the connection is active at a time, so
\* no two tasks are in their block loops together.
C29_OneStreamPerConnection ==
    impl = "cmd" =>
        /\ Cardinality(InBlockLoop) <= 1
        /\ Cardinality(StreamsActive) <= 1

\* C30: when the wait of an attempt ends and the ota_ack of the awaited seq
\* was handled since the send of that attempt began (before wait_for_ack
\* started to wait, or during the wait), the loop leaves the chunk: it is not
\* sent again and failed_chunks stays as it is.
C30_EarlyAckCounts ==
    [][(opc = "wait_ack" /\ opc' # "wait_ack"
          /\ (otaHeard.early \/ otaHeard.waker = << "ota_ack", seq >>))
         => (opc' = "yield" /\ seq' = seq + 1
             /\ failed_chunks' = failed_chunks)]_vars

\* C31: every wait for an acknowledgement ends, every transfer ends, and a
\* transfer that is over has sent at least total_chunks and at most
\* total_chunks * OTA_MAX_RETRIES chunks, whatever the device sent.
C31_TransferTerminates ==
    /\ (opc = "wait_ack") ~> (opc # "wait_ack")
    /\ (otaHeard.result = "running") ~> (otaHeard.result # "running")
    /\ [](TransferEnded =>
             /\ Cardinality(ChunkIdx) >= total_chunks
             /\ Cardinality(ChunkIdx) <= total_chunks * OTA_MAX_RETRIES)

\* C31 as amended: every wait ends and every transfer ends, whatever the
\* device sent; no transfer sends more than total_chunks * OTA_MAX_RETRIES
\* chunks, and a transfer whose sends all return has sent at least
\* total_chunks chunks when it sends OTA_COMPLETE.  A transfer that is over
\* with fewer chunk sends was aborted by a send that raised.
C31_TransferTerminatesUnlessSendRaises ==
    /\ (opc = "wait_ack") ~> (opc # "wait_ack")
    /\ (otaHeard.result = "running") ~> (otaHeard.result \in {"completed", "aborted"})
    /\ [](Cardinality(ChunkIdx) <= total_chunks * OTA_MAX_RETRIES)
    /\ []((opc = "send_complete" \/ otaHeard.result = "completed")
             => Cardinality(ChunkIdx) >= total_chunks)
    /\ []((TransferEnded /\ Cardinality(ChunkIdx) < total_chunks)
             => otaHeard.result = "aborted")

\* the device stayed silent through a transfer of MaxChunks chunks: every
\* chunk was sent OTA_MAX_RETRIES times and the transfer completed
W31_CompletedAfterSilence ==
    /\ otaHeard.result = "completed"
    /\ total_chunks = MaxChunks
    /\ Cardinality(ChunkIdx) = MaxChunks * OTA_MAX_RETRIES
    /\ ota_last_ack_seq = -1 /\ ota_last_nack_seq = -1

\* everything a send_wav task sends when nothing stops it
WholeStream ==
    << Text("PROCESSING_START"), Text("01"), Text("SPEAK_START") >>
        \o StreamFrom(0, << 0, 0 >>) \o << Text("TTS_END") >>

\* C32: what a send_wav task has sent is always a prefix of PROCESSING_START,
\* the emotion code, SPEAK_START, the audio blocks in order, TTS_END: no
\* audio block goes out before SPEAK_START and none after TTS_END.
C32_StreamMessageOrder ==
    impl = "cmd" =>
        \A t \in TaskIds :
            /\ Len(sentLog[t]) <= Len(WholeStream)
            /\ sentLog[t] = SubSeq(WholeStream, 1, Len(sentLog[t]))

\* a task has sent the whole stream, from PROCESSING_START to TTS_END
W32_WholeStreamSent ==
    /\ impl = "cmd"
    /\ \E t \in TaskIds : Done(t) /\ sentLog[t] = WholeStream

\* a is an initial segment of b
IsPrefix(a, b) == Len(a) <= Len(b) /\ a = SubSeq(b, 1, Len(a))

\* C33: the utterance an END hands to inference consists only of samples
\* decoded from audio messages handled after the last START (last.fresh);
\* nothing decoded before that START is part of it.
C33_UtteranceOnlyAfterStart ==
    (last.msg = "END" /\ ~last.empty) =>
        IsPrefix(Flatten(Utterance), last.fresh)

\* C34: handling a text that parses as a JSON object changes neither the
\* recording flag, the utterance buffer, the receive-side codec state nor the
\* current response stream, and it is not taken as START or END.
C34_JsonLeavesSessionUntouched ==
    [][\A c \in JsonMsgs :
          RecvJson(c) =>
              /\ UNCHANGED <<recording, pcm_buf, rx_state, current_tts_task,
                             tasks, ntasks, sentLog>>
              /\ SessionState' = SessionState
              /\ last'.msg \notin {"START", "END"}
              /\ last'.fresh = last.fresh]_vars

\* a JSON object was handled while recording, with audio buffered, the codec
\* state moved and a response stream under way
W34_JsonWhileRecordingAndStreaming ==
    /\ last.msg = "json" /\ last.pre = "Listening"
    /\ recording /\ pcm_buf # << >> /\ rx_state # << 0, 0 >>
    /\ StreamsActive # {}

\* C35: ACTIVE_WS is set exactly while the device connection's handler is
\* running: never left referring to a connection whose handler has ended,
\* never None while the connection is open.
C35_ActiveWsTracksConnection ==
    impl = "cmd" => ((ACTIVE_WS # "None") <=> (hpc # "closed"))

====
